---- MODULE Spec2Model ----
(***************************************************************************)
(* Subtitle timing and caption muxing pipeline of brainrot-ai's backend.   *)
(*                                                                         *)
(*   backend/services/subtitleService.js   createSmartSubtitles,           *)
(*       saveSubtitleFile, burnSubtitlesIntoVideo, addSoftSubtitles,       *)
(*       processSubtitles                                                  *)
(*   backend/controllers/subtitleController.js  processVideoWithSubtitles, *)
(*       generateSubtitles, updateSubtitleTiming, addSubtitlesToVideo      *)
(*   backend/routes/subtitleRoutes.js      the debug-test route            *)
(*   backend/controllers/videoController.js  downloadVideo                 *)
(*   backend/middleware/errorHandler.js    errorHandler                    *)
(*   backend/models/videoModel.js          readData, writeData, create,    *)
(*       findById, update, updateStatus, updateStage, deleteById           *)
(*   backend/services/ffmpegService.js     getVideoDuration                *)
(*                                                                         *)
(* All times are integers in milliseconds, but for the argument of         *)
(* formatTime, which is in ticks.  The arithmetic is exact; the program    *)
(* computes in doubles, whose rounding can move a printed millisecond by   *)
(* one (formatTime(1.2) prints 00:00:01,199).  A script, and any text, is  *)
(* a sequence of one-character strings.                                    *)
(***************************************************************************)
EXTENDS Integers, Sequences, FiniteSets, TLC

\* ------------------------------------------------------------------------
\* Bounds of the model
\* ------------------------------------------------------------------------
MaxLen == 5            \* longest script, in characters
MaxDurSteps == 6       \* video durations are DurStep, 2*DurStep, ...
DurStep == 450         \* granularity of the video durations, in ms
TickMs == 100000       \* longest step of the clock, in ms
TicksPerMs == 2        \* resolution of the times given to formatTime
MaxHours == 100        \* longest time given to formatTime alone, in hours
MaxRequests == 2       \* subtitle requests in flight at the same time
MaxProgress == 1       \* progress events of one engine run
MaxCalls == 3          \* calls of videoModel in a row

\* ------------------------------------------------------------------------
\* Program constants
\* ------------------------------------------------------------------------
wordsPerMinute == 180
GapMs == 500
BurnTimeoutMs == 600000
SoftTimeoutMs == 300000
TestTimeoutMs == 10000
FallbackDurationMs == 30000

Chars == {"a", " ", ".", "\n"}
Formats == {"srt", "vtt"}

Min(a, b) == IF a <= b THEN a ELSE b

\* ------------------------------------------------------------------------
\* createSmartSubtitles: splitting the script
\* ------------------------------------------------------------------------
IsPunct(c) == c \in {".", "!", "?"}
IsSpace(c) == c \in {" ", "\n", "\t"}

\* s.split(/[.!?]+/): the pieces between maximal runs of punctuation
RECURSIVE SplitFrom(_, _, _, _)
SplitFrom(s, i, cur, acc) ==
    IF i > Len(s) THEN Append(acc, cur)
    ELSE IF IsPunct(s[i])
         THEN IF i > 1 /\ IsPunct(s[i - 1])
              THEN SplitFrom(s, i + 1, cur, acc)
              ELSE SplitFrom(s, i + 1, <<>>, Append(acc, cur))
         ELSE SplitFrom(s, i + 1, Append(cur, s[i]), acc)

SplitPunct(s) == SplitFrom(s, 1, <<>>, <<>>)

\* String.prototype.trim
RECURSIVE TrimLeft(_)
TrimLeft(s) ==
    IF s # <<>> /\ IsSpace(Head(s)) THEN TrimLeft(Tail(s)) ELSE s

RECURSIVE TrimRight(_)
TrimRight(s) ==
    IF s # <<>> /\ IsSpace(s[Len(s)])
    THEN TrimRight(SubSeq(s, 1, Len(s) - 1))
    ELSE s

Trim(s) == TrimRight(TrimLeft(s))

NonEmpty(s) == Len(s) > 0

\* .split(/[.!?]+/).map(s => s.trim()).filter(s => s.length > 0)
Sentences(scriptText) ==
    LET pieces == SplitPunct(scriptText)
        trimmed == [i \in 1..Len(pieces) |-> Trim(pieces[i])]
    IN SelectSeq(trimmed, NonEmpty)

\* s.split(/\s+/).length: one more than the number of whitespace runs
RECURSIVE SpaceRuns(_, _)
SpaceRuns(s, i) ==
    IF i > Len(s) THEN 0
    ELSE (IF IsSpace(s[i]) /\ (i = 1 \/ ~IsSpace(s[i - 1])) THEN 1 ELSE 0)
         + SpaceRuns(s, i + 1)

WordCount(s) == 1 + SpaceRuns(s, 1)

\* ------------------------------------------------------------------------
\* createSmartSubtitles: timing of one cue
\* ------------------------------------------------------------------------
\* (words / wordsPerMinute) * 60 * 1.2 seconds, in ms
SentenceDurationNoBuffer(words) == (words * 60 * 1000) \div wordsPerMinute
SentenceDuration(words) == (words * 60 * 1000 * 12) \div (wordsPerMinute * 10)

EndTimeUnclamped(cur, dur, vd) == cur + dur
EndTime(cur, dur, vd) == Min(cur + dur, vd)

NextTimeNoGap(end) == end
NextTime(end) == end + GapMs

\* the cue of one forEach iteration, lines 119-141
MakeCueClampingStart(index, cur, sentence, vd) ==
    [index |-> index + 1,
     start |-> Min(cur, vd),
     end   |-> EndTime(cur, SentenceDuration(WordCount(sentence)), vd),
     text  |-> Trim(sentence)]

MakeCue(index, cur, sentence, vd) ==
    [index |-> index + 1,
     start |-> cur,
     end   |-> EndTime(cur, SentenceDuration(WordCount(sentence)), vd),
     text  |-> Trim(sentence)]

\* ------------------------------------------------------------------------
\* createSmartSubtitles: formatTime and the text of one cue
\* ------------------------------------------------------------------------
\* A text is a sequence of one-character strings.  formatTime takes its
\* argument in ticks, TicksPerMs ticks to the millisecond, so that a time
\* may fall between two milliseconds.
TicksPerSec == 1000 * TicksPerMs

DigitChar(d) == <<"0", "1", "2", "3", "4", "5", "6", "7", "8", "9">>[d + 1]

RECURSIVE Digits(_)
Digits(n) ==
    IF n < 10 THEN <<DigitChar(n)>>
    ELSE Append(Digits(n \div 10), DigitChar(n % 10))

\* Number.prototype.toString of an integer
toString(n) == IF n < 0 THEN <<"-">> \o Digits(0 - n) ELSE Digits(n)

\* String.prototype.padStart: pads up to the length, never truncates
padStart(s, targetLength, c) ==
    IF Len(s) >= targetLength THEN s
    ELSE [i \in 1..(targetLength - Len(s)) |-> c] \o s

\* JavaScript's %: the remainder has the sign of the dividend
Rem(a, b) == IF a >= 0 THEN a % b ELSE 0 - ((0 - a) % b)

\* lines 124-127: the four Math.floor lines
TimeFieldsRoundingUp(seconds) ==
    [hours        |-> seconds \div (3600 * TicksPerSec),
     minutes      |-> Rem(seconds, 3600 * TicksPerSec) \div (60 * TicksPerSec),
     secs         |-> Rem(seconds, 60 * TicksPerSec) \div TicksPerSec,
     milliseconds |-> (Rem(seconds, TicksPerSec) * 1000 + TicksPerSec - 1)
                          \div TicksPerSec]
TimeFields(seconds) ==
    [hours        |-> seconds \div (3600 * TicksPerSec),
     minutes      |-> Rem(seconds, 3600 * TicksPerSec) \div (60 * TicksPerSec),
     secs         |-> Rem(seconds, 60 * TicksPerSec) \div TicksPerSec,
     milliseconds |-> (Rem(seconds, TicksPerSec) * 1000) \div TicksPerSec]

\* lines 123-134
formatTimeComma(seconds, fmt) ==
    LET f == TimeFields(seconds)
    IN padStart(toString(f.hours), 2, "0") \o <<":">>
       \o padStart(toString(f.minutes), 2, "0") \o <<":">>
       \o padStart(toString(f.secs), 2, "0") \o <<",">>
       \o padStart(toString(f.milliseconds), 3, "0")
formatTime(seconds, fmt) ==
    LET f == TimeFields(seconds)
    IN IF fmt = "srt"
       THEN padStart(toString(f.hours), 2, "0") \o <<":">>
            \o padStart(toString(f.minutes), 2, "0") \o <<":">>
            \o padStart(toString(f.secs), 2, "0") \o <<",">>
            \o padStart(toString(f.milliseconds), 3, "0")
       ELSE padStart(toString(f.hours), 2, "0") \o <<":">>
            \o padStart(toString(f.minutes), 2, "0") \o <<":">>
            \o padStart(toString(f.secs), 2, "0") \o <<".">>
            \o padStart(toString(f.milliseconds), 3, "0")

\* 'WEBVTT\n\n', lines 104 and 115
Header == <<"W", "E", "B", "V", "T", "T", "\n", "\n">>

\* lines 136-141: what one forEach iteration appends to subtitles
CueText(index, cur, endTime, sentence, fmt) ==
    (IF fmt = "srt" THEN toString(index + 1) \o <<"\n">> ELSE <<>>)
    \o formatTime(cur * TicksPerMs, fmt) \o <<" ", "-", "-", ">", " ">>
    \o formatTime(endTime * TicksPerMs, fmt) \o <<"\n">>
    \o Trim(sentence) \o <<"\n", "\n">>

VARIABLES
    scriptText,      \* createSmartSubtitles: the script
    videoDuration,   \* createSmartSubtitles: the duration, ms
    format,          \* "srt" or "vtt"
    cuePc,           \* position in createSmartSubtitles
    sentences,       \* the trimmed non-empty segments
    currentTime,     \* the running cursor, ms
    cues,            \* the cues emitted so far
    subtitles        \* the text built so far

VARIABLES
    nodeEnv,         \* process.env.NODE_ENV
    entry,           \* the function the invocation entered through
    req,             \* the HTTP request of processVideoWithSubtitles
    options,         \* the options object of processSubtitles
    fsys,            \* the files: source video, subtitle file, output video
    psPc,            \* position in processSubtitles
    subtitleContent, \* processSubtitles' local subtitleContent
    result,          \* the fields of processSubtitles' result object
    thrown,          \* the error processSubtitles threw, "none" if none
    burn,            \* the burnSubtitlesIntoVideo call
    soft,            \* the addSoftSubtitles call
    now,             \* the clock, ms
    trace,           \* the engine processes and copies started, in order
    pvPc,            \* position in processVideoWithSubtitles
    store,           \* videoModel's data file: id -> record
    statusLog,       \* the values the record's status has taken, in order
    response,        \* the HTTP response sent
    ctlPc            \* position in generateSubtitles / updateSubtitleTiming

VARIABLES
    previous,        \* format, cues and text of an earlier call of
                     \* createSmartSubtitles on the same script
    seconds,         \* formatTime called alone: its argument, in ticks
    timeString,      \* formatTime called alone: the string returned
    requests,        \* concurrent subtitle requests: slot -> request
    err,             \* the error handed to the error middleware
    download,        \* the response to a download of the processed video
    lastCall         \* videoModel called alone: the last call and its return

cueVars == <<scriptText, videoDuration, format, cuePc, sentences,
             currentTime, cues, subtitles>>

psVars == <<psPc, subtitleContent, result, thrown>>

pvVars == <<pvPc, store, statusLog, response, ctlPc>>

otherVars == <<previous, seconds, timeString, requests, err, download, lastCall>>

pipeVars == <<nodeEnv, entry, req, options, fsys, psVars, burn, soft, now, trace,
              pvVars, otherVars>>

vars == <<cueVars, pipeVars>>

\* ------------------------------------------------------------------------
\* Values of the pipeline state
\* ------------------------------------------------------------------------
VideoId == "v1"

NoRequest == [file |-> FALSE, script |-> FALSE, subtitleType |-> "hard"]
NoContent == [format |-> "none", text |-> <<>>]
NoFile == [format |-> "absent", text |-> <<>>]
OldFile == [format |-> "old", text |-> <<"o", "l", "d">>]
NoPrevious == [format |-> "none", cues |-> <<>>, subtitles |-> <<>>]
NoRequests == [r \in {} |-> 0]
NoResponse == [code |-> 0, body |-> {}]
NoError == [name |-> "none", code |-> "none", ffmpeg |-> FALSE, statusCode |-> 0]
NoDownload == [code |-> 0, message |-> "none"]
NoUpdates == [f \in {} |-> 0]
NoOp == [op |-> "none", id |-> "none", updates |-> NoUpdates,
         returned |-> "none", at |-> 0, repeats |-> FALSE]
EmptyStore == [id \in {} |-> 0]

\* a call of burnSubtitlesIntoVideo or addSoftSubtitles:
\*   promise   "none" (not called), "pending", "resolved", "rejected"
\*   reason    why the promise was settled
\*   phase     "none", "test" (the exec probe), "run" (the engine), "over"
\*   proc      the engine process is running
\*   timer     deadline of the armed setTimeout / exec timeout, -1 if none
\*   armedAt   when the setTimeout was armed, settledAt when settled
\*   progress  the 'progress' events handled so far
NoCall == [promise |-> "none", reason |-> "none", phase |-> "none",
           proc |-> FALSE, timer |-> -1, armedAt |-> -1, settledAt |-> -1,
           progress |-> 0]

RECURSIVE SeqsUpTo(_)
SeqsUpTo(n) ==
    IF n = 0 THEN {<<>>}
    ELSE LET shorter == SeqsUpTo(n - 1)
         IN shorter \cup {Append(s, c) : s \in {t \in shorter : Len(t) = n - 1},
                                          c \in Chars}

Scripts == SeqsUpTo(MaxLen)
Durations == {k * DurStep : k \in 1..MaxDurSteps}

\* the scripts and durations of the pipeline runs; getVideoDuration falls
\* back to 30 s when ffprobe fails
SampleScripts == {<<"a">>, <<"a", ".", "a", " ", "a">>}

\* the example scenario: a script and a duration
ExampleScript ==
    <<"H", "e", " ", "r", "u", "n", "s", ".", " ",
      "H", "e", " ", "j", "u", "m", "p", "s", "!", " ",
      "W", "i", "l", "l", " ", "h", "e", " ", "m", "a", "k", "e", " ", "i", "t", "?">>
ExampleDuration == 10000

\* the times given to formatTime alone, in ticks: around the carries of
\* each field, on and off a whole millisecond
FmtTimes ==
    {(((h * 60 + m) * 60 + sec) * 1000 + msec) * TicksPerMs + sub :
        h \in {0, 1, MaxHours - 1, MaxHours}, m \in {0, 59}, sec \in {0, 59},
        msec \in {0, 1, 999}, sub \in 0..(TicksPerMs - 1)}
ProbedDurations == {DurStep, FallbackDurationMs}

InitCue ==
    /\ scriptText \in Scripts \cup {ExampleScript}
    /\ videoDuration \in Durations \cup {ExampleDuration}
    /\ format \in Formats
    /\ cuePc = "split"
    /\ sentences = <<>>
    /\ currentTime = 0
    /\ cues = <<>>
    /\ subtitles = <<>>
    /\ previous = NoPrevious
    /\ seconds = 0
    /\ timeString = <<>>
    /\ requests = NoRequests
    /\ download = NoDownload
    /\ lastCall = NoOp
    /\ err = NoError
    /\ ctlPc = "idle"
    /\ nodeEnv = "production"
    /\ entry = "createSmartSubtitles"
    /\ req = NoRequest
    /\ subtitleContent = NoContent
    /\ options = [addToVideo |-> FALSE, videoPath |-> FALSE, subtitleType |-> "hard"]
    /\ fsys = [video |-> "missing", subtitle |-> NoFile, output |-> "absent",
               writable |-> TRUE, writes |-> "none"]
    /\ psPc = "idle"
    /\ result = {}
    /\ thrown = "none"
    /\ burn = NoCall
    /\ soft = NoCall
    /\ now = 0
    /\ trace = <<>>
    /\ pvPc = "idle"
    /\ store = EmptyStore
    /\ statusLog = <<>>
    /\ response = NoResponse

\* lines 98-116: split, early return on no sentence, cursor at 0
CueSplitNoHeader ==
    /\ cuePc = "split"
    /\ sentences' = Sentences(scriptText)
    /\ currentTime' = 0
    /\ cuePc' = IF Len(Sentences(scriptText)) = 0 THEN "done" ELSE "loop"
    /\ cues' = <<>>
    /\ subtitles' = IF Len(Sentences(scriptText)) = 0
                    THEN <<>>
                    ELSE (IF format = "vtt" THEN Header ELSE <<>>)
    /\ UNCHANGED <<scriptText, videoDuration, format, pipeVars>>

CueSplit ==
    /\ cuePc = "split"
    /\ sentences' = Sentences(scriptText)
    /\ currentTime' = 0
    /\ cuePc' = IF Len(Sentences(scriptText)) = 0 THEN "done" ELSE "loop"
    /\ cues' = <<>>
    /\ subtitles' = IF Len(Sentences(scriptText)) = 0
                    THEN (IF format = "srt" THEN <<>> ELSE Header)
                    ELSE (IF format = "vtt" THEN Header ELSE <<>>)
    /\ UNCHANGED <<scriptText, videoDuration, format, pipeVars>>

\* lines 118-144: one iteration of sentences.forEach
CueEmitDropping ==
    /\ cuePc = "loop"
    /\ Len(cues) < Len(sentences)
    /\ LET cue == MakeCue(Len(cues), currentTime, sentences[Len(cues) + 1],
                          videoDuration)
           endTime == cue.end
       IN /\ cues' = IF currentTime > videoDuration THEN cues ELSE Append(cues, cue)
          /\ subtitles' = IF currentTime > videoDuration THEN subtitles
                          ELSE subtitles \o CueText(Len(cues), currentTime, endTime,
                                                    sentences[Len(cues) + 1], format)
          /\ sentences' = IF currentTime > videoDuration
                          THEN SubSeq(sentences, 1, Len(cues))
                          ELSE sentences
          /\ currentTime' = NextTime(endTime)
    /\ UNCHANGED <<scriptText, videoDuration, format, cuePc, pipeVars>>

CueEmit ==
    /\ cuePc = "loop"
    /\ Len(cues) < Len(sentences)
    /\ LET cue == MakeCue(Len(cues), currentTime, sentences[Len(cues) + 1],
                          videoDuration)
       IN /\ cues' = Append(cues, cue)
          /\ subtitles' = subtitles \o CueText(Len(cues), currentTime, cue.end,
                                                sentences[Len(cues) + 1], format)
          /\ currentTime' = NextTime(cue.end)
    /\ UNCHANGED <<scriptText, videoDuration, format, cuePc, sentences, pipeVars>>

\* line 146: return
CueReturn ==
    /\ cuePc = "loop"
    /\ Len(cues) = Len(sentences)
    /\ cuePc' = "done"
    /\ UNCHANGED <<scriptText, videoDuration, format, sentences, currentTime, cues,
                   subtitles, pipeVars>>

NextCue == CueSplit \/ CueEmit \/ CueReturn

SpecCue == InitCue /\ [][NextCue]_vars

\* a caller asks for the other format of the same script and duration
CueAgain ==
    /\ entry = "createSmartSubtitles"
    /\ cuePc = "done"
    /\ previous = NoPrevious
    /\ previous' = [format |-> format, cues |-> cues, subtitles |-> subtitles]
    /\ format' = IF format = "srt" THEN "vtt" ELSE "srt"
    /\ cuePc' = "split"
    /\ UNCHANGED <<scriptText, videoDuration, sentences, currentTime, cues,
                   subtitles, nodeEnv, entry, req, options, fsys, psVars, burn,
                   soft, now, trace, pvVars, seconds, timeString, requests, err,
                   download, lastCall>>

NextTwice == CueSplit \/ CueEmit \/ CueReturn \/ CueAgain

SpecTwice == InitCue /\ [][NextTwice]_vars

\* formatTime called alone
InitFmt ==
    /\ seconds \in FmtTimes
    /\ format \in Formats
    /\ timeString = <<>>
    /\ entry = "formatTime"
    /\ scriptText = <<>>
    /\ videoDuration = 0
    /\ cuePc = "idle"
    /\ sentences = <<>>
    /\ currentTime = 0
    /\ cues = <<>>
    /\ subtitles = <<>>
    /\ previous = NoPrevious
    /\ requests = NoRequests
    /\ download = NoDownload
    /\ lastCall = NoOp
    /\ err = NoError
    /\ ctlPc = "idle"
    /\ nodeEnv = "production"
    /\ req = NoRequest
    /\ subtitleContent = NoContent
    /\ options = [addToVideo |-> FALSE, videoPath |-> FALSE, subtitleType |-> "hard"]
    /\ fsys = [video |-> "missing", subtitle |-> NoFile, output |-> "absent",
               writable |-> TRUE, writes |-> "none"]
    /\ psPc = "idle"
    /\ result = {}
    /\ thrown = "none"
    /\ burn = NoCall
    /\ soft = NoCall
    /\ now = 0
    /\ trace = <<>>
    /\ pvPc = "idle"
    /\ store = EmptyStore
    /\ statusLog = <<>>
    /\ response = NoResponse

FormatTime ==
    /\ entry = "formatTime"
    /\ timeString = <<>>
    /\ timeString' = formatTime(seconds, format)
    /\ UNCHANGED <<cueVars, nodeEnv, entry, req, options, fsys, psVars, burn,
                   soft, now, trace, pvVars, previous, seconds, requests, err,
                   download, lastCall>>

NextFmt == FormatTime

SpecFmt == InitFmt /\ [][NextFmt]_vars

\* ------------------------------------------------------------------------
\* videoModel: the status store
\* ------------------------------------------------------------------------
\* create: data[id] = newVideo
create(data, videoData) ==
    [id \in DOMAIN data \cup {videoData.id} |->
        IF id = videoData.id
        THEN [status |-> videoData.status,
              filePath |-> videoData.filePath,
              duration |-> 0,
              subtitlePath |-> "null",
              processedVideoPath |-> "null",
              stages |-> {"upload"}]
        ELSE data[id]]

\* update: unknown id leaves the data alone, else merge the updates
update(data, id, updates) ==
    IF id \notin DOMAIN data THEN data
    ELSE [data EXCEPT ![id] =
            [f \in DOMAIN data[id] \cup DOMAIN updates |->
                IF f \in DOMAIN updates THEN updates[f] ELSE data[id][f]]]

\* the status values the record of VideoId goes through
Logged(log, data) ==
    IF VideoId \in DOMAIN data
       /\ (log = <<>> \/ log[Len(log)] # data[VideoId].status)
    THEN Append(log, data[VideoId].status)
    ELSE log

\* ------------------------------------------------------------------------
\* responseUtils
\* ------------------------------------------------------------------------
errorResponse(statusCode, error) ==
    [code |-> statusCode,
     body |-> {"success", "message", "timestamp"}
              \cup (IF error /\ nodeEnv = "development" THEN {"error"} ELSE {})]

successResponse(statusCode, fields) ==
    [code |-> statusCode, body |-> {"success", "message", "timestamp"} \cup fields]

notFoundResponse == [code |-> 404, body |-> {"success", "message", "timestamp"}]

\* ------------------------------------------------------------------------
\* errorHandler, the error middleware
\* ------------------------------------------------------------------------
\* the errors: name and code as the handler reads them, ffmpeg when the
\* message includes 'ffmpeg', statusCode 0 when the error has none
Errs == [name : {"Error", "ValidationError", "JsonWebTokenError"},
         code : {"none", "11000", "LIMIT_FILE_SIZE", "insufficient_quota"},
         ffmpeg : BOOLEAN,
         statusCode : {0, 404}]

\* the status code after the chain of ifs: the last one that matches wins
errorStatusCode(e) ==
    IF e.ffmpeg THEN 422
    ELSE IF e.code = "insufficient_quota" THEN 503
    ELSE IF e.code = "LIMIT_FILE_SIZE" THEN 400
    ELSE IF e.name = "JsonWebTokenError" THEN 401
    ELSE IF e.code = "11000" THEN 400
    ELSE IF e.name = "ValidationError" THEN 400
    ELSE IF e.statusCode # 0 THEN e.statusCode
    ELSE 500

errorHandler(e) ==
    [code |-> errorStatusCode(e),
     body |-> {"success", "error.message"}
              \cup (IF nodeEnv = "development" THEN {"error.stack"} ELSE {})]

\* ------------------------------------------------------------------------
\* The files
\* ------------------------------------------------------------------------
OutputVideoPath == "v1_with_subtitles.mp4"
SubtitlePath == "v1_subtitles"

\* fs.existsSync of the three paths
VideoExists(f) == f.video # "missing"
SubtitleExists(f) == f.subtitle # NoFile
OutputExists(out) == out # "absent"

\* ------------------------------------------------------------------------
\* burnSubtitlesIntoVideo and addSoftSubtitles: the promise and its events
\* ------------------------------------------------------------------------
\* resolve / reject: only the first call settles a promise
SettleAgain(call, outcome, why, t) ==
    [call EXCEPT !.promise = outcome, !.reason = why, !.settledAt = t]

Settle(call, outcome, why, t) ==
    IF call.promise = "pending"
    THEN [call EXCEPT !.promise = outcome, !.reason = why, !.settledAt = t]
    ELSE call

InputsExist(f) == VideoExists(f) /\ SubtitleExists(f)

\* burnSubtitlesIntoVideo, the executor up to the exec of the test command
StartBurn(f, t) ==
    IF ~InputsExist(f)
    THEN [NoCall EXCEPT !.promise = "rejected", !.reason = "missing",
                        !.phase = "over", !.settledAt = t]
    ELSE [NoCall EXCEPT !.promise = "pending", !.phase = "test",
                        !.proc = TRUE, !.timer = t + TestTimeoutMs]

\* addSoftSubtitles, the executor up to .run()
StartSoft(f, t) ==
    IF ~InputsExist(f)
    THEN [NoCall EXCEPT !.promise = "rejected", !.reason = "missing",
                        !.phase = "over", !.settledAt = t]
    ELSE [NoCall EXCEPT !.promise = "pending", !.phase = "run",
                        !.proc = TRUE, !.timer = t + SoftTimeoutMs,
                        !.armedAt = t]

\* the processes started by a call's executor
BurnStarts(f) == IF InputsExist(f) THEN <<"test">> ELSE <<>>
SoftStarts(f) == IF InputsExist(f) THEN <<"soft">> ELSE <<>>

pipeFrame == <<nodeEnv, entry, req, options, otherVars>>

\* callback of the test exec, no error: startSubtitleBurn arms the 10 minute
\* timer and runs the engine
BurnTestPassed ==
    /\ burn.phase = "test"
    /\ burn' = [burn EXCEPT !.phase = "run", !.timer = now + BurnTimeoutMs,
                            !.armedAt = now]
    /\ trace' = Append(trace, "burn")
    /\ UNCHANGED <<cueVars, pipeFrame, fsys, psVars, soft, now, pvVars>>

\* callback of the test exec with an error
BurnTestFailed ==
    /\ burn.phase = "test"
    /\ burn' = [Settle(burn, "rejected", "test", now)
                    EXCEPT !.phase = "over", !.proc = FALSE, !.timer = -1]
    /\ UNCHANGED <<cueVars, pipeFrame, fsys, psVars, soft, now, trace, pvVars>>

\* the exec timeout kills the test command: callback with an error
BurnTestTimeout ==
    /\ burn.phase = "test"
    /\ burn.timer = now
    /\ burn' = [Settle(burn, "rejected", "testTimeout", now)
                    EXCEPT !.phase = "over", !.proc = FALSE, !.timer = -1]
    /\ UNCHANGED <<cueVars, pipeFrame, fsys, psVars, soft, now, trace, pvVars>>

\* 'end' of the burn: clearTimeout, then resolve if the output exists
BurnEndUnchecked ==
    /\ burn.phase = "run"
    /\ burn.proc
    /\ \E created \in BOOLEAN :
         /\ fsys' = [fsys EXCEPT !.output = IF created THEN "burned" ELSE @]
         /\ burn' = [Settle(burn, "resolved", "end", now)
                         EXCEPT !.phase = "over", !.proc = FALSE, !.timer = -1]
    /\ UNCHANGED <<cueVars, pipeFrame, psVars, soft, now, trace, pvVars>>

BurnEnd ==
    /\ burn.phase = "run"
    /\ burn.proc
    /\ \E created \in BOOLEAN :
         LET out == IF created THEN "burned" ELSE fsys.output
         IN /\ fsys' = [fsys EXCEPT !.output = out]
            /\ burn' = [(IF OutputExists(out)
                         THEN Settle(burn, "resolved", "end", now)
                         ELSE Settle(burn, "rejected", "nofile", now))
                            EXCEPT !.phase = "over", !.proc = FALSE, !.timer = -1]
    /\ UNCHANGED <<cueVars, pipeFrame, psVars, soft, now, trace, pvVars>>

\* 'error' of the burn: clearTimeout, reject
BurnError ==
    /\ burn.phase = "run"
    /\ burn.proc
    /\ burn' = [Settle(burn, "rejected", "error", now)
                    EXCEPT !.phase = "over", !.proc = FALSE, !.timer = -1]
    /\ UNCHANGED <<cueVars, pipeFrame, fsys, psVars, soft, now, trace, pvVars>>

\* the 10 minute timer fires: reject; the engine process is left running
BurnTimeoutLogsOnly ==
    /\ burn.phase = "run"
    /\ burn.timer = now
    /\ burn' = [burn EXCEPT !.timer = -1]
    /\ UNCHANGED <<cueVars, pipeFrame, fsys, psVars, soft, now, trace, pvVars>>

BurnTimeout ==
    /\ burn.phase = "run"
    /\ burn.timer = now
    /\ burn' = [Settle(burn, "rejected", "timeout", now) EXCEPT !.timer = -1]
    /\ UNCHANGED <<cueVars, pipeFrame, fsys, psVars, soft, now, trace, pvVars>>

\* 'progress' of the burn: a line is logged
BurnProgress ==
    /\ burn.phase = "run"
    /\ burn.proc
    /\ burn.progress < MaxProgress
    /\ burn' = [burn EXCEPT !.progress = @ + 1]
    /\ UNCHANGED <<cueVars, pipeFrame, fsys, psVars, soft, now, trace, pvVars>>

\* 'end' of the soft-track call
SoftEnd ==
    /\ soft.phase = "run"
    /\ soft.proc
    /\ \E created \in BOOLEAN :
         LET out == IF created THEN "soft" ELSE fsys.output
         IN /\ fsys' = [fsys EXCEPT !.output = out]
            /\ soft' = [(IF OutputExists(out)
                         THEN Settle(soft, "resolved", "end", now)
                         ELSE Settle(soft, "rejected", "nofile", now))
                            EXCEPT !.phase = "over", !.proc = FALSE, !.timer = -1]
    /\ UNCHANGED <<cueVars, pipeFrame, psVars, burn, now, trace, pvVars>>

\* 'error' of the soft-track call
SoftError ==
    /\ soft.phase = "run"
    /\ soft.proc
    /\ soft' = [Settle(soft, "rejected", "error", now)
                    EXCEPT !.phase = "over", !.proc = FALSE, !.timer = -1]
    /\ UNCHANGED <<cueVars, pipeFrame, fsys, psVars, burn, now, trace, pvVars>>

\* the 5 minute timer fires
SoftTimeout ==
    /\ soft.phase = "run"
    /\ soft.timer = now
    /\ soft' = [Settle(soft, "rejected", "timeout", now) EXCEPT !.timer = -1]
    /\ UNCHANGED <<cueVars, pipeFrame, fsys, psVars, burn, now, trace, pvVars>>

\* 'progress' of the soft-track call: a line is logged
SoftProgress ==
    /\ soft.phase = "run"
    /\ soft.proc
    /\ soft.progress < MaxProgress
    /\ soft' = [soft EXCEPT !.progress = @ + 1]
    /\ UNCHANGED <<cueVars, pipeFrame, fsys, psVars, burn, now, trace, pvVars>>

\* time passes, up to the next deadline
Deadlines == {d \in {burn.timer, soft.timer} : d >= 0}

Tick ==
    /\ Deadlines # {}
    /\ \A d \in Deadlines : d > now
    /\ now' = CHOOSE t \in {now + TickMs} \cup Deadlines :
                 \A u \in {now + TickMs} \cup Deadlines : t <= u
    /\ UNCHANGED <<cueVars, pipeFrame, fsys, psVars, burn, soft, trace, pvVars>>

\* ------------------------------------------------------------------------
\* processSubtitles
\* ------------------------------------------------------------------------
\* lines 399-418: parse the options, call createSmartSubtitles
PsStart ==
    /\ psPc = "start"
    /\ cuePc' = "split"
    /\ psPc' = "generating"
    /\ UNCHANGED <<scriptText, videoDuration, format, sentences, currentTime, cues,
                   subtitles, pipeFrame, fsys, subtitleContent, result, thrown, burn, soft,
                   now, trace, pvVars>>

\* lines 418-427: createSmartSubtitles returned its text, start
\* saveSubtitleFile
PsGenerated ==
    /\ psPc = "generating"
    /\ cuePc = "done"
    /\ subtitleContent' = [format |-> format, text |-> subtitles]
    /\ psPc' = "saving"
    /\ UNCHANGED <<cueVars, pipeFrame, fsys, result, thrown, burn, soft, now,
                   trace, pvVars>>

\* saveSubtitleFile rejects (mkdirSync throws in the executor, or writeFile
\* calls back with an error): the outer catch rethrows
PsSaveFailedSwallowed ==
    /\ psPc = "saving"
    /\ ~fsys.writable
    /\ result' = {"subtitlePath", "subtitleContent", "format"}
    /\ psPc' = "returned"
    /\ UNCHANGED <<cueVars, pipeFrame, fsys, subtitleContent, thrown, burn, soft,
                   now, trace, pvVars>>

PsSaveFailed ==
    /\ psPc = "saving"
    /\ ~fsys.writable
    /\ thrown' = "io"
    /\ psPc' = "threw"
    /\ UNCHANGED <<cueVars, pipeFrame, fsys, subtitleContent, result, burn, soft,
                   now, trace, pvVars>>

\* saveSubtitleFile resolves; lines 428-448, 463, 486-490: the result
\* object, then the first engine call of the requested mode, or the return
PsSavedAppending ==
    /\ psPc = "saving"
    /\ fsys.writable
    /\ fsys' = [fsys EXCEPT !.subtitle = [subtitleContent EXCEPT
                                              !.text = fsys.subtitle.text \o @],
                            !.writes = IF SubtitleExists(fsys) THEN "replaced"
                                       ELSE "created"]
    /\ result' = {"subtitlePath", "subtitleContent", "format"}
    /\ IF options.addToVideo /\ options.videoPath
       THEN IF options.subtitleType = "soft"
            THEN /\ soft' = StartSoft(fsys', now)
                 /\ trace' = trace \o SoftStarts(fsys')
                 /\ psPc' = "awaitSoft"
                 /\ burn' = burn
            ELSE /\ burn' = StartBurn(fsys', now)
                 /\ trace' = trace \o BurnStarts(fsys')
                 /\ psPc' = "awaitBurn"
                 /\ soft' = soft
       ELSE /\ psPc' = "returned"
            /\ UNCHANGED <<burn, soft, trace>>
    /\ UNCHANGED <<cueVars, pipeFrame, subtitleContent, thrown, now, pvVars>>

PsSaved ==
    /\ psPc = "saving"
    /\ fsys.writable
    /\ fsys' = [fsys EXCEPT !.subtitle = subtitleContent,
                            !.writes = IF SubtitleExists(fsys) THEN "replaced"
                                       ELSE "created"]
    /\ result' = {"subtitlePath", "subtitleContent", "format"}
    /\ IF options.addToVideo /\ options.videoPath
       THEN IF options.subtitleType = "soft"
            THEN /\ soft' = StartSoft(fsys', now)
                 /\ trace' = trace \o SoftStarts(fsys')
                 /\ psPc' = "awaitSoft"
                 /\ burn' = burn
            ELSE /\ burn' = StartBurn(fsys', now)
                 /\ trace' = trace \o BurnStarts(fsys')
                 /\ psPc' = "awaitBurn"
                 /\ soft' = soft
       ELSE /\ psPc' = "returned"
            /\ UNCHANGED <<burn, soft, trace>>
    /\ UNCHANGED <<cueVars, pipeFrame, subtitleContent, thrown, now, pvVars>>

\* lines 464-465: the burn succeeded
PsBurnResolved ==
    /\ psPc = "awaitBurn"
    /\ burn.promise = "resolved"
    /\ result' = result \cup {"videoWithSubtitles"}
    /\ psPc' = "returned"
    /\ UNCHANGED <<cueVars, pipeFrame, fsys, subtitleContent, thrown, burn, soft,
                   now, trace, pvVars>>

\* lines 466-471: the burn failed, try soft subtitles
PsBurnRejectedCopies ==
    /\ psPc = "awaitBurn"
    /\ burn.promise = "rejected"
    /\ VideoExists(fsys)
    /\ fsys' = [fsys EXCEPT !.output = "copy"]
    /\ trace' = Append(trace, "copy")
    /\ result' = result \cup {"videoWithSubtitles"}
    /\ psPc' = "returned"
    /\ UNCHANGED <<cueVars, pipeFrame, subtitleContent, thrown, burn, soft, now,
                   pvVars>>

PsBurnRejected ==
    /\ psPc = "awaitBurn"
    /\ burn.promise = "rejected"
    /\ soft' = StartSoft(fsys, now)
    /\ trace' = trace \o SoftStarts(fsys)
    /\ psPc' = "awaitSoft"
    /\ UNCHANGED <<cueVars, pipeFrame, fsys, subtitleContent, result, thrown, burn,
                   now, pvVars>>

\* lines 449-450 and 472-473: the soft-track call succeeded
PsSoftResolvedThenCopy ==
    /\ psPc = "awaitSoft"
    /\ soft.promise = "resolved"
    /\ fsys' = [fsys EXCEPT !.output = "copy"]
    /\ trace' = Append(trace, "copy")
    /\ result' = result \cup {"videoWithSubtitles"}
    /\ psPc' = "returned"
    /\ UNCHANGED <<cueVars, pipeFrame, subtitleContent, thrown, burn, soft, now,
                   pvVars>>

PsSoftResolved ==
    /\ psPc = "awaitSoft"
    /\ soft.promise = "resolved"
    /\ result' = result \cup {"videoWithSubtitles"}
    /\ psPc' = "returned"
    /\ UNCHANGED <<cueVars, pipeFrame, fsys, subtitleContent, thrown, burn, soft,
                   now, trace, pvVars>>

\* lines 451-456 and 474-479: the soft-track call failed, copy the original;
\* copyFileSync throws when the source is missing
PsSoftRejected ==
    /\ psPc = "awaitSoft"
    /\ soft.promise = "rejected"
    /\ trace' = Append(trace, "copy")
    /\ IF VideoExists(fsys)
       THEN /\ fsys' = [fsys EXCEPT !.output = "copy"]
            /\ result' = result \cup {"videoWithSubtitles"}
            /\ psPc' = "returned"
            /\ thrown' = thrown
       ELSE /\ thrown' = "ENOENT"
            /\ psPc' = "threw"
            /\ UNCHANGED <<fsys, result>>
    /\ UNCHANGED <<cueVars, pipeFrame, subtitleContent, burn, soft, now, pvVars>>

\* ------------------------------------------------------------------------
\* processVideoWithSubtitles
\* ------------------------------------------------------------------------
\* lines 405-444: parse the request, create the record, start the probe
PvParse ==
    /\ pvPc = "start"
    /\ IF ~req.file \/ ~req.script
       THEN /\ response' = errorResponse(400, FALSE)
            /\ pvPc' = "responded"
            /\ UNCHANGED <<store, statusLog>>
       ELSE /\ store' = create(store, [id |-> VideoId, status |-> "processing",
                                       filePath |-> "upload"])
            /\ statusLog' = Logged(statusLog, store')
            /\ pvPc' = "probing"
            /\ response' = response
    /\ UNCHANGED <<cueVars, pipeFrame, fsys, psVars, burn, soft, now, trace, ctlPc>>

\* getVideoDuration rejects (bad extension, missing or too small a file):
\* lines 499-502
PvProbeRejected ==
    /\ pvPc = "probing"
    /\ fsys.video # "ok"
    /\ response' = errorResponse(500, TRUE)
    /\ pvPc' = "responded"
    /\ UNCHANGED <<cueVars, pipeFrame, fsys, psVars, burn, soft, now, trace,
                   store, statusLog, ctlPc>>

\* getVideoDuration resolves; lines 445-469: record the duration and call
\* processSubtitles
PvProbeResolved ==
    /\ pvPc = "probing"
    /\ fsys.video = "ok"
    /\ \E d \in ProbedDurations :
         /\ videoDuration' = d
         /\ store' = update(store, VideoId, [duration |-> d])
    /\ statusLog' = Logged(statusLog, store')
    /\ options' = [addToVideo |-> TRUE, videoPath |-> TRUE,
                   subtitleType |-> req.subtitleType]
    /\ psPc' = "start"
    /\ pvPc' = "awaitPs"
    /\ UNCHANGED <<scriptText, format, cuePc, sentences, currentTime, cues,
                   subtitles, nodeEnv, entry, req, fsys, subtitleContent, result,
                   thrown, burn, soft, now, trace, response, ctlPc, otherVars>>

\* lines 470-497: processSubtitles returned
PvProcessed ==
    /\ pvPc = "awaitPs"
    /\ psPc = "returned"
    /\ LET updateData == [subtitlePath |-> SubtitlePath,
                          subtitleFormat |-> format,
                          subtitleType |-> req.subtitleType,
                          status |-> "completed"]
       IN store' = update(store, VideoId,
                          IF "videoWithSubtitles" \in result
                          THEN updateData @@ [processedVideoPath |-> OutputVideoPath]
                          ELSE updateData)
    /\ statusLog' = Logged(statusLog, store')
    /\ response' = successResponse(201, {"videoId", "subtitlePath", "format",
                                         "subtitleType", "duration"}
                                        \cup (result \cap {"videoWithSubtitles"}))
    /\ pvPc' = "responded"
    /\ UNCHANGED <<cueVars, pipeFrame, fsys, psVars, burn, soft, now, trace, ctlPc>>

\* lines 499-503: processSubtitles threw
PvFailed ==
    /\ pvPc = "awaitPs"
    /\ psPc = "threw"
    /\ response' = errorResponse(500, TRUE)
    /\ pvPc' = "responded"
    /\ UNCHANGED <<cueVars, pipeFrame, fsys, psVars, burn, soft, now, trace,
                   store, statusLog, ctlPc>>

\* ------------------------------------------------------------------------
\* generateSubtitles
\* ------------------------------------------------------------------------
\* the body of the request: script is scriptText, videoDuration, format,
\* and options, which is spread into the options of processSubtitles
\* lines 279-295
GsParse ==
    /\ entry = "generateSubtitles"
    /\ ctlPc = "start"
    /\ IF scriptText = <<>> \/ videoDuration = 0
       THEN /\ response' = errorResponse(400, FALSE)
            /\ ctlPc' = "responded"
            /\ psPc' = psPc
       ELSE /\ psPc' = "start"
            /\ ctlPc' = "awaitPs"
            /\ response' = response
    /\ UNCHANGED <<cueVars, pipeFrame, fsys, subtitleContent, result, thrown,
                   burn, soft, now, trace, pvPc, store, statusLog>>

\* lines 297-312: processSubtitles returned
GsProcessed ==
    /\ entry = "generateSubtitles"
    /\ ctlPc = "awaitPs"
    /\ psPc = "returned"
    /\ response' = successResponse(201, {"subtitleId", "subtitlePath", "format",
                                         "content"})
    /\ ctlPc' = "responded"
    /\ UNCHANGED <<cueVars, pipeFrame, fsys, psVars, burn, soft, now, trace,
                   pvPc, store, statusLog>>

\* lines 314-317: processSubtitles threw
GsFailed ==
    /\ entry = "generateSubtitles"
    /\ ctlPc = "awaitPs"
    /\ psPc = "threw"
    /\ response' = errorResponse(500, TRUE)
    /\ ctlPc' = "responded"
    /\ UNCHANGED <<cueVars, pipeFrame, fsys, psVars, burn, soft, now, trace,
                   pvPc, store, statusLog>>

\* ------------------------------------------------------------------------
\* downloadVideo, GET /api/videos/download/:videoId
\* ------------------------------------------------------------------------
\* !video.outputPath: the record has no such field, or it is null
HasOutputPath(video) ==
    "outputPath" \in DOMAIN video /\ video.outputPath # "null"

downloadVideo(data, videoId, f) ==
    IF videoId \notin DOMAIN data
    THEN [code |-> 404, message |-> "Video not found"]
    ELSE IF data[videoId].status # "completed" \/ ~HasOutputPath(data[videoId])
    THEN [code |-> 400, message |-> "Video not ready for download"]
    ELSE IF ~OutputExists(f.output)
    THEN [code |-> 404, message |-> "Processed video file not found"]
    ELSE [code |-> 200, message |-> "download"]

\* the client downloads the video once processVideoWithSubtitles has
\* answered
DownloadVideo ==
    /\ entry = "processVideoWithSubtitles"
    /\ pvPc = "responded"
    /\ download = NoDownload
    /\ download' = downloadVideo(store, VideoId, fsys)
    /\ UNCHANGED <<cueVars, nodeEnv, entry, req, options, fsys, psVars, burn,
                   soft, now, trace, pvVars, previous, seconds, timeString,
                   requests, err, lastCall>>

\* ------------------------------------------------------------------------
\* The debug route of the subtitle router, and the error middleware
\* ------------------------------------------------------------------------
\* POST /api/subtitles/debug-test: the try block either runs through or one
\* of its steps throws, and the catch sends message and stack
DebugTest ==
    /\ entry = "debugTest"
    /\ ctlPc = "start"
    /\ \E crashed \in BOOLEAN :
         response' = IF crashed
                     THEN [code |-> 500, body |-> {"success", "error", "stack"}]
                     ELSE [code |-> 200,
                           body |-> {"success", "message", "videoId", "file"}]
    /\ ctlPc' = "responded"
    /\ UNCHANGED <<cueVars, pipeFrame, fsys, psVars, burn, soft, now, trace,
                   pvPc, store, statusLog>>

\* an error reaches app.use(errorHandler)
ErrorHandled ==
    /\ entry = "errorHandler"
    /\ ctlPc = "start"
    /\ response' = errorHandler(err)
    /\ ctlPc' = "responded"
    /\ UNCHANGED <<cueVars, pipeFrame, fsys, psVars, burn, soft, now, trace,
                   pvPc, store, statusLog>>

\* ------------------------------------------------------------------------
\* updateSubtitleTiming
\* ------------------------------------------------------------------------
\* lines 570-592: find the record and its script, call processSubtitles
\* with { format, timing }; path.dirname throws on a record that has no
\* subtitlePath
UtParse ==
    /\ entry = "updateSubtitleTiming"
    /\ ctlPc = "start"
    /\ IF VideoId \notin DOMAIN store
       THEN /\ response' = notFoundResponse
            /\ ctlPc' = "responded"
            /\ UNCHANGED <<psPc, videoDuration>>
       ELSE IF ~store[VideoId].script
       THEN /\ response' = errorResponse(400, FALSE)
            /\ ctlPc' = "responded"
            /\ UNCHANGED <<psPc, videoDuration>>
       ELSE IF store[VideoId].subtitlePath = "null"
       THEN /\ response' = errorResponse(500, TRUE)
            /\ ctlPc' = "responded"
            /\ UNCHANGED <<psPc, videoDuration>>
       ELSE /\ videoDuration' = store[VideoId].duration
            /\ psPc' = "start"
            /\ ctlPc' = "awaitPs"
            /\ response' = response
    /\ UNCHANGED <<scriptText, format, cuePc, sentences, currentTime, cues,
                   subtitles, pipeFrame, fsys, subtitleContent, result, thrown,
                   burn, soft, now, trace, pvPc, store, statusLog>>

\* lines 594-605: processSubtitles returned
UtProcessed ==
    /\ entry = "updateSubtitleTiming"
    /\ ctlPc = "awaitPs"
    /\ psPc = "returned"
    /\ store' = update(store, VideoId, [subtitlePath |-> SubtitlePath])
    /\ statusLog' = Logged(statusLog, store')
    /\ response' = successResponse(200, {"videoId", "subtitlePath", "content",
                                         "format"})
    /\ ctlPc' = "responded"
    /\ UNCHANGED <<cueVars, pipeFrame, fsys, psVars, burn, soft, now, trace, pvPc>>

\* lines 607-610: processSubtitles threw
UtFailed ==
    /\ entry = "updateSubtitleTiming"
    /\ ctlPc = "awaitPs"
    /\ psPc = "threw"
    /\ response' = errorResponse(500, TRUE)
    /\ ctlPc' = "responded"
    /\ UNCHANGED <<cueVars, pipeFrame, fsys, psVars, burn, soft, now, trace,
                   pvPc, store, statusLog>>

\* ------------------------------------------------------------------------
\* The pipeline specification
\* ------------------------------------------------------------------------
InitFrame ==
    /\ cuePc = "idle"
    /\ sentences = <<>>
    /\ currentTime = 0
    /\ cues = <<>>
    /\ subtitles = <<>>
    /\ previous = NoPrevious
    /\ seconds = 0
    /\ timeString = <<>>
    /\ requests = NoRequests
    /\ download = NoDownload
    /\ lastCall = NoOp
    /\ nodeEnv \in {"development", "production"}
    /\ format \in Formats
    /\ subtitleContent = NoContent
    /\ result = {}
    /\ thrown = "none"
    /\ burn = NoCall
    /\ soft = NoCall
    /\ now = 0
    /\ trace = <<>>
    /\ response = NoResponse

\* a call of processSubtitles by any caller
InitDirect ==
    /\ err = NoError
    /\ entry = "processSubtitles"
    /\ req = NoRequest
    /\ scriptText \in SampleScripts
    /\ videoDuration \in ProbedDurations
    /\ options \in [addToVideo : BOOLEAN, videoPath : BOOLEAN,
                    subtitleType : {"hard", "soft"}]
    /\ fsys \in [video : {"missing", "ok"}, subtitle : {NoFile, OldFile},
                 output : {"absent"}, writable : BOOLEAN, writes : {"none"}]
    /\ store = EmptyStore
    /\ statusLog = <<>>
    /\ psPc = "start"
    /\ pvPc = "idle"
    /\ ctlPc = "idle"

\* a POST /api/subtitles/process request; multer has stored req.file
InitRequest ==
    /\ err = NoError
    /\ entry = "processVideoWithSubtitles"
    /\ req \in [file : BOOLEAN, script : BOOLEAN, subtitleType : {"hard", "soft"}]
    /\ scriptText \in (IF req.script THEN SampleScripts ELSE {<<>>})
    /\ videoDuration = 0
    /\ options = [addToVideo |-> FALSE, videoPath |-> FALSE, subtitleType |-> "hard"]
    /\ fsys \in [video : (IF req.file THEN {"ok", "tiny", "badext"} ELSE {"missing"}),
                 subtitle : {NoFile}, output : {"absent"}, writable : BOOLEAN,
                 writes : {"none"}]
    /\ store = EmptyStore
    /\ statusLog = <<>>
    /\ psPc = "idle"
    /\ pvPc = "start"
    /\ ctlPc = "idle"

\* a POST /api/subtitles/generate request
GenScripts == {<<>>, <<".">>, <<"a">>}
GenDurations == {0 - DurStep, 0, DurStep}

InitGenerate ==
    /\ err = NoError
    /\ entry = "generateSubtitles"
    /\ req = NoRequest
    /\ scriptText \in GenScripts
    /\ videoDuration \in GenDurations
    /\ options \in [addToVideo : BOOLEAN, videoPath : BOOLEAN,
                    subtitleType : {"hard", "soft"}]
    /\ fsys \in [video : {"missing", "ok"}, subtitle : {NoFile},
                 output : {"absent"}, writable : BOOLEAN, writes : {"none"}]
    /\ store = EmptyStore
    /\ statusLog = <<>>
    /\ psPc = "idle"
    /\ pvPc = "idle"
    /\ ctlPc = "start"

\* a PUT /api/subtitles/timing/:videoId request.  A record that has a
\* subtitlePath got it from addSubtitlesToVideo or
\* processVideoWithSubtitles, with the status completed; a later
\* processVideo run may have marked it failed.
TimingRecords ==
    {[status |-> st, filePath |-> "upload", duration |-> d, subtitlePath |-> sp,
      processedVideoPath |-> IF sp = "null" THEN "null" ELSE OutputVideoPath,
      script |-> sc] :
        st \in {"uploaded", "completed", "failed"}, d \in {0, DurStep},
        sp \in {"null", SubtitlePath}, sc \in BOOLEAN}

InitTiming ==
    /\ err = NoError
    /\ entry = "updateSubtitleTiming"
    /\ req = NoRequest
    /\ store \in {EmptyStore}
                 \cup {[id \in {VideoId} |-> rec] :
                         rec \in {t \in TimingRecords :
                                     (t.subtitlePath = "null") = (t.status = "uploaded")}}
    /\ statusLog = Logged(<<>>, store)
    /\ scriptText \in (IF VideoId \in DOMAIN store /\ store[VideoId].script
                        THEN SampleScripts ELSE {<<>>})
    /\ videoDuration = 0
    /\ options = [addToVideo |-> FALSE, videoPath |-> FALSE, subtitleType |-> "hard"]
    /\ fsys \in [video : {"ok"},
                 subtitle : (IF VideoId \in DOMAIN store
                                /\ store[VideoId].subtitlePath # "null"
                             THEN {NoFile, OldFile} ELSE {NoFile}),
                 output : {"absent"}, writable : BOOLEAN, writes : {"none"}]
    /\ psPc = "idle"
    /\ pvPc = "idle"
    /\ ctlPc = "start"

\* a POST /api/subtitles/debug-test request
InitDebug ==
    /\ err = NoError
    /\ entry = "debugTest"
    /\ req \in [file : BOOLEAN, script : {FALSE}, subtitleType : {"hard"}]
    /\ scriptText = <<>>
    /\ videoDuration = 0
    /\ options = [addToVideo |-> FALSE, videoPath |-> FALSE, subtitleType |-> "hard"]
    /\ fsys \in [video : (IF req.file THEN {"ok"} ELSE {"missing"}),
                 subtitle : {NoFile}, output : {"absent"}, writable : BOOLEAN,
                 writes : {"none"}]
    /\ store = EmptyStore
    /\ statusLog = <<>>
    /\ psPc = "idle"
    /\ pvPc = "idle"
    /\ ctlPc = "start"

\* a request whose handling passed an error to next()
InitError ==
    /\ err \in Errs
    /\ entry = "errorHandler"
    /\ req = NoRequest
    /\ scriptText = <<>>
    /\ videoDuration = 0
    /\ options = [addToVideo |-> FALSE, videoPath |-> FALSE, subtitleType |-> "hard"]
    /\ fsys = [video |-> "missing", subtitle |-> NoFile, output |-> "absent",
               writable |-> TRUE, writes |-> "none"]
    /\ store = EmptyStore
    /\ statusLog = <<>>
    /\ psPc = "idle"
    /\ pvPc = "idle"
    /\ ctlPc = "start"

Init ==
    InitFrame /\ (InitDirect \/ InitRequest \/ InitGenerate \/ InitTiming
                    \/ InitDebug \/ InitError)

Next ==
    \/ PsStart \/ CueSplit \/ CueEmit \/ CueReturn \/ PsGenerated
    \/ PsSaveFailed \/ PsSaved
    \/ PsBurnResolved \/ PsBurnRejected \/ PsSoftResolved \/ PsSoftRejected
    \/ BurnTestPassed \/ BurnTestFailed \/ BurnTestTimeout
    \/ BurnEnd \/ BurnError \/ BurnTimeout \/ BurnProgress
    \/ SoftEnd \/ SoftError \/ SoftTimeout \/ SoftProgress
    \/ Tick
    \/ PvParse \/ PvProbeRejected \/ PvProbeResolved \/ PvProcessed \/ PvFailed
    \/ GsParse \/ GsProcessed \/ GsFailed
    \/ UtParse \/ UtProcessed \/ UtFailed
    \/ DebugTest \/ ErrorHandled
    \/ DownloadVideo

Spec == Init /\ [][Next]_vars

\* The steps Node runs without waiting for the engine: continuations of
\* settled promises, and timers, which fire once their delay has passed.
\* The engine's own events (BurnTestPassed, BurnTestFailed, BurnEnd,
\* BurnError, BurnProgress, SoftEnd, SoftError, SoftProgress) may never come.
Scheduled ==
    \/ PsStart \/ CueSplit \/ CueEmit \/ CueReturn \/ PsGenerated
    \/ PsSaveFailed \/ PsSaved
    \/ PsBurnResolved \/ PsBurnRejected \/ PsSoftResolved \/ PsSoftRejected
    \/ BurnTestTimeout \/ BurnTimeout \/ SoftTimeout \/ Tick
    \/ PvParse \/ PvProbeRejected \/ PvProbeResolved \/ PvProcessed \/ PvFailed
    \/ GsParse \/ GsProcessed \/ GsFailed
    \/ UtParse \/ UtProcessed \/ UtFailed
    \/ DebugTest \/ ErrorHandled

LiveSpec == Spec /\ WF_vars(Scheduled)

\* ------------------------------------------------------------------------
\* videoModel called alone
\* ------------------------------------------------------------------------
\* The data file holds store.  Each call reads the whole file, changes the
\* object and writes the whole file back.  A read that fails (readFileSync
\* or JSON.parse throws) is caught in readData; a write that fails is
\* rethrown.  The clock now counts the calls and gives updatedAt.
StoreIds == {"v1", "v2"}
Stages == {"frameExtraction", "videoMerging"}
Updates == {[status |-> "completed"],
            [duration |-> DurStep],
            [status |-> "processing", processedVideoPath |-> OutputVideoPath]}

\* readData: the parsed file, or {} when reading failed
readData(file, readFails) == IF readFails THEN EmptyStore ELSE file

\* updatedAt: new Date().toISOString()
Stamp(data, id, t) ==
    [data EXCEPT ![id] = [f \in DOMAIN data[id] \cup {"updatedAt"} |->
                             IF f = "updatedAt" THEN t ELSE data[id][f]]]

\* delete data[id]
Without(data, id) == [k \in DOMAIN data \ {id} |-> data[k]]

\* the record of a call: what was called, what it returned, when, and
\* whether it is an update that repeats the successful update before it
Called(op, id, updates, returned) ==
    [op |-> op, id |-> id, updates |-> updates, returned |-> returned,
     at |-> now + 1,
     repeats |-> /\ op = "update"
                 /\ lastCall.op = "update"
                 /\ lastCall.returned = "record"
                 /\ lastCall.id = id
                 /\ lastCall.updates = updates]

InitStore ==
    /\ entry = "videoModel"
    /\ requests = NoRequests
    /\ download = NoDownload
    /\ lastCall = NoOp
    /\ err = NoError
    /\ scriptText = <<>>
    /\ videoDuration = 0
    /\ format = "srt"
    /\ cuePc = "idle"
    /\ sentences = <<>>
    /\ currentTime = 0
    /\ cues = <<>>
    /\ subtitles = <<>>
    /\ previous = NoPrevious
    /\ seconds = 0
    /\ timeString = <<>>
    /\ ctlPc = "idle"
    /\ nodeEnv = "production"
    /\ req = NoRequest
    /\ subtitleContent = NoContent
    /\ options = [addToVideo |-> FALSE, videoPath |-> FALSE, subtitleType |-> "hard"]
    /\ fsys = [video |-> "ok", subtitle |-> NoFile, output |-> "absent",
               writable |-> TRUE, writes |-> "none"]
    /\ psPc = "idle"
    /\ result = {}
    /\ thrown = "none"
    /\ burn = NoCall
    /\ soft = NoCall
    /\ now = 0
    /\ trace = <<>>
    /\ pvPc = "idle"
    /\ store = EmptyStore
    /\ statusLog = <<>>
    /\ response = NoResponse

storeFrame == <<cueVars, nodeEnv, entry, req, options, fsys, psVars, burn, soft,
                trace, pvPc, statusLog, response, ctlPc, previous, seconds,
                timeString, requests, err, download>>

\* what a call that got as far as writeData(data) does: the write either
\* replaces the file or throws
Written(data, op, id, updates, returned) ==
    \E writeFails \in BOOLEAN :
        IF writeFails
        THEN /\ store' = store
             /\ lastCall' = Called(op, id, updates, "threw")
        ELSE /\ store' = data
             /\ lastCall' = Called(op, id, updates, returned)

\* create(videoData)
VmCreate ==
    /\ now < MaxCalls
    /\ now' = now + 1
    /\ \E id \in StoreIds, readFails \in BOOLEAN :
         LET data == readData(store, readFails)
             videoData == [id |-> id, status |-> "uploaded", filePath |-> "upload"]
         IN Written(Stamp(create(data, videoData), id, now + 1),
                    "create", id, NoUpdates, "record")
    /\ UNCHANGED storeFrame

\* findById(id)
VmFindById ==
    /\ now < MaxCalls
    /\ now' = now + 1
    /\ \E id \in StoreIds, readFails \in BOOLEAN :
         LET data == readData(store, readFails)
         IN lastCall' = Called("findById", id, NoUpdates,
                               IF id \in DOMAIN data THEN "record" ELSE "null")
    /\ store' = store
    /\ UNCHANGED storeFrame

\* the body of update(id, updates)
Updated(id, updates, readFails) ==
    LET data == readData(store, readFails)
    IN IF id \notin DOMAIN data
       THEN /\ store' = store
            /\ lastCall' = Called("update", id, updates, "null")
       ELSE Written(Stamp(update(data, id, updates), id, now + 1),
                    "update", id, updates, "record")

\* update(id, updates) that stores the fields under an id it does not find
VmUpdateUpserting ==
    /\ now < MaxCalls
    /\ now' = now + 1
    /\ \E id \in StoreIds, updates \in Updates, readFails \in BOOLEAN :
         LET data == readData(store, readFails)
             merged == [k \in DOMAIN data \cup {id} |->
                           IF k # id THEN data[k]
                           ELSE IF id \in DOMAIN data
                                THEN update(data, id, updates)[id]
                                ELSE updates]
         IN Written(Stamp(merged, id, now + 1), "update", id, updates, "record")
    /\ UNCHANGED storeFrame

VmUpdate ==
    /\ now < MaxCalls
    /\ now' = now + 1
    /\ \E id \in StoreIds, updates \in Updates, readFails \in BOOLEAN :
         Updated(id, updates, readFails)
    /\ UNCHANGED storeFrame

\* updateStatus(id, status): update(id, { status })
VmUpdateStatus ==
    /\ now < MaxCalls
    /\ now' = now + 1
    /\ \E id \in StoreIds, status \in {"processing", "failed"},
          readFails \in BOOLEAN :
         Updated(id, [status |-> status], readFails)
    /\ UNCHANGED storeFrame

\* updateStage(id, stage, completed): findById, then update(id, { stages });
\* each of the two reads the file
VmUpdateStage ==
    /\ now < MaxCalls
    /\ now' = now + 1
    /\ \E id \in StoreIds, stage \in Stages, completed \in BOOLEAN,
          findFails \in BOOLEAN, readFails \in BOOLEAN :
         LET found == readData(store, findFails)
         IN IF id \notin DOMAIN found
            THEN /\ store' = store
                 /\ lastCall' = Called("updateStage", id, NoUpdates, "null")
            ELSE LET stages == IF completed
                               THEN found[id].stages \cup {stage}
                               ELSE found[id].stages \ {stage}
                 IN Updated(id, [stages |-> stages], readFails)
    /\ UNCHANGED storeFrame

\* deleteById(id)
VmDeleteById ==
    /\ now < MaxCalls
    /\ now' = now + 1
    /\ \E id \in StoreIds, readFails \in BOOLEAN :
         LET data == readData(store, readFails)
         IN IF id \notin DOMAIN data
            THEN /\ store' = store
                 /\ lastCall' = Called("deleteById", id, NoUpdates, "false")
            ELSE Written(Without(data, id), "deleteById", id, NoUpdates, "true")
    /\ UNCHANGED storeFrame

NextStore ==
    \/ VmCreate \/ VmFindById \/ VmUpdate \/ VmUpdateStatus \/ VmUpdateStage
    \/ VmDeleteById

SpecStore == InitStore /\ [][NextStore]_vars

\* ------------------------------------------------------------------------
\* Concurrent subtitle requests and the paths they write
\* ------------------------------------------------------------------------
\* The four handlers that call processSubtitles.  generateSubtitles and
\* processVideoWithSubtitles name their files by a fresh uuidv4();
\* addSubtitlesToVideo and updateSubtitleTiming by req.params.videoId, the
\* id of an existing record.
Handlers == {"generateSubtitles", "addSubtitlesToVideo",
             "processVideoWithSubtitles", "updateSubtitleTiming"}
Slots == 1..MaxRequests
RecordIds == {"v1"}
Uuids == {"u" \o toString(k)[1] : k \in Slots}

\* path.join(outputDir, `${videoId}_subtitles.${format}`) and
\* path.join(outputDir, `${videoId}_with_subtitles.mp4`), where outputDir is
\* the directory of the videoId
subtitlePathOf(videoId, fmt) == <<videoId, videoId, "_subtitles.", fmt>>
outputVideoPathOf(videoId) == <<videoId, videoId, "_with_subtitles.mp4">>

\* the ids a handler may work on: a uuid no request has drawn, or the id
\* in the URL
IdsFor(handler) ==
    IF handler \in {"generateSubtitles", "processVideoWithSubtitles"}
    THEN Uuids \ {requests[r].videoId : r \in DOMAIN requests}
    ELSE RecordIds

\* addToVideo && videoPath: always for addSubtitlesToVideo and
\* processVideoWithSubtitles, never for updateSubtitleTiming, as the body's
\* options say for generateSubtitles
MuxFor(handler) ==
    IF handler \in {"addSubtitlesToVideo", "processVideoWithSubtitles"} THEN {TRUE}
    ELSE IF handler = "updateSubtitleTiming" THEN {FALSE}
    ELSE BOOLEAN

InitConc ==
    /\ entry = "concurrent"
    /\ requests = NoRequests
    /\ download = NoDownload
    /\ lastCall = NoOp
    /\ err = NoError
    /\ scriptText = <<>>
    /\ videoDuration = 0
    /\ format = "srt"
    /\ cuePc = "idle"
    /\ sentences = <<>>
    /\ currentTime = 0
    /\ cues = <<>>
    /\ subtitles = <<>>
    /\ previous = NoPrevious
    /\ seconds = 0
    /\ timeString = <<>>
    /\ ctlPc = "idle"
    /\ nodeEnv = "production"
    /\ req = NoRequest
    /\ subtitleContent = NoContent
    /\ options = [addToVideo |-> FALSE, videoPath |-> FALSE, subtitleType |-> "hard"]
    /\ fsys = [video |-> "ok", subtitle |-> NoFile, output |-> "absent",
               writable |-> TRUE, writes |-> "none"]
    /\ psPc = "idle"
    /\ result = {}
    /\ thrown = "none"
    /\ burn = NoCall
    /\ soft = NoCall
    /\ now = 0
    /\ trace = <<>>
    /\ pvPc = "idle"
    /\ store = EmptyStore
    /\ statusLog = <<>>
    /\ response = NoResponse

concFrame == <<cueVars, nodeEnv, entry, req, options, fsys, psVars, burn, soft,
               now, trace, pvVars, previous, seconds, timeString, err, download,
               lastCall>>

\* a request arrives; its handler runs up to the await of saveSubtitleFile
\* in processSubtitles, with fs.writeFile under way
StartRequest ==
    /\ entry = "concurrent"
    /\ \E slot \in Slots \ DOMAIN requests, handler \in Handlers, fmt \in Formats :
         \E id \in IdsFor(handler), mux \in MuxFor(handler) :
            requests' = [r \in DOMAIN requests \cup {slot} |->
                            IF r = slot
                            THEN [handler |-> handler, videoId |-> id,
                                  format |-> fmt, mux |-> mux, pc |-> "saving"]
                            ELSE requests[r]]
    /\ UNCHANGED concFrame

\* the write of a request completes: the engine starts on the output
\* path, or processSubtitles returns
SubtitleWritten ==
    /\ \E r \in DOMAIN requests :
         /\ requests[r].pc = "saving"
         /\ requests' = [requests EXCEPT
                            ![r].pc = IF requests[r].mux THEN "muxing" ELSE "done"]
    /\ UNCHANGED concFrame

\* the muxing of a request ends, by the engine or by the copy
MuxFinished ==
    /\ \E r \in DOMAIN requests :
         /\ requests[r].pc = "muxing"
         /\ requests' = [requests EXCEPT ![r].pc = "done"]
    /\ UNCHANGED concFrame

NextConc == StartRequest \/ SubtitleWritten \/ MuxFinished

SpecConc == InitConc /\ [][NextConc]_vars

\* the paths a request writes while it is in flight
InFlight(r) == requests[r].pc \in {"saving", "muxing"}

Writes(r) ==
    {subtitlePathOf(requests[r].videoId, requests[r].format)}
    \cup (IF requests[r].mux THEN {outputVideoPathOf(requests[r].videoId)} ELSE {})

\* C20 (as claimed): the subtitle path and the output video path of an
\* invocation are owned by it alone: in any interleaving of concurrent
\* subtitle requests, no two invocations in flight at the same time write
\* the same subtitle path or the same output video path.
C20_PathsExclusive ==
    \A r1, r2 \in DOMAIN requests :
        (r1 # r2 /\ InFlight(r1) /\ InFlight(r2)) => Writes(r1) \cap Writes(r2) = {}

\* ------------------------------------------------------------------------
\* Properties of processSubtitles and processVideoWithSubtitles
\* ------------------------------------------------------------------------
Range(f) == {f[i] : i \in DOMAIN f}

PsOver == psPc \in {"returned", "threw"}

\* C1 (as claimed): when the soft-track call fails (after a failed burn in
\* hard mode, or directly in soft mode) the source video is copied to the
\* output path and the returned result carries degraded: true.
C1_DegradedReported ==
    (psPc = "returned" /\ soft.promise = "rejected") =>
        /\ "copy" \in Range(trace)
        /\ "videoWithSubtitles" \in result
        /\ "degraded" \in result

\* C2: in hard mode, when the burn fails and the soft-track call then
\* succeeds, the result is a success with videoWithSubtitles set, without a
\* degraded flag, and the copy of the original is not executed.
C2_SoftFallbackSucceeds ==
    (PsOver /\ burn.promise = "rejected" /\ soft.promise = "resolved") =>
        /\ psPc = "returned"
        /\ thrown = "none"
        /\ "videoWithSubtitles" \in result
        /\ "degraded" \notin result
        /\ "copy" \notin Range(trace)
        /\ fsys.output # "copy"

C2_Witness ==
    /\ psPc = "returned"
    /\ options.subtitleType = "hard"
    /\ burn.promise = "rejected"
    /\ burn.reason = "error"
    /\ soft.promise = "resolved"
    /\ fsys.output = "soft"

\* C3: every processSubtitles invocation with addToVideo eventually returns
\* a result or an error, even when the engine never emits an event: the
\* burn call is abandoned 600 s after its timer was armed, the soft-track
\* call after 300 s, and each abandonment leads to the next fallback step.
C3_AlwaysReturns ==
    /\ [](burn.reason = "timeout" =>
              burn.settledAt = burn.armedAt + BurnTimeoutMs)
    /\ [](soft.reason = "timeout" =>
              soft.settledAt = soft.armedAt + SoftTimeoutMs)
    /\ (psPc = "start" /\ options.addToVideo) ~>
          (/\ PsOver
           /\ burn.reason = "timeout" => soft.promise # "none"
           /\ soft.reason = "timeout" => "copy" \in Range(trace))

\* both engine calls were abandoned by their timers
C3_Witness ==
    /\ psPc = "returned"
    /\ burn.reason = "timeout"
    /\ soft.reason = "timeout"
    /\ burn.proc /\ soft.proc
    /\ now = BurnTimeoutMs + SoftTimeoutMs

\* C4 (as claimed): when an input path is missing at the start of muxing,
\* the muxer fails at once with the missing-input error: no soft-track
\* attempt follows the burn's missing-input error, no copy of the original
\* runs, and the invocation does not return a result.
C4_MissingInputFailsAtOnce ==
    /\ burn.reason = "missing" => soft.promise = "none"
    /\ (burn.reason = "missing" \/ soft.reason = "missing") =>
          /\ "copy" \notin Range(trace)
          /\ psPc # "returned"
          /\ thrown \in {"none", "missing"}

\* C5 (as claimed): when a stage of processVideoWithSubtitles fails, the
\* record is marked failed; no record stays in a non-terminal status after
\* its pipeline run has ended.
C5_FailureMarksRecordFailed ==
    (pvPc = "responded" /\ VideoId \in DOMAIN store) =>
        /\ store[VideoId].status \in {"completed", "failed"}
        /\ response.code = 500 => store[VideoId].status = "failed"

\* C6 (as claimed): during a successful run the status record takes the
\* values queued, timing, serializing, writing, muxing, completed, in
\* that order.
C6_StatusSequence ==
    (pvPc = "responded" /\ response.code = 201) =>
        statusLog = <<"queued", "timing", "serializing", "writing", "muxing",
                      "completed">>

\* C16: if the subtitle file cannot be written (creating the directory or
\* the write fails), processSubtitles fails with the I/O error instead of
\* returning a result, and muxing is never started: no engine call and no
\* copy of the source video.
C16_WriteFailureIsFatal ==
    /\ (psPc = "threw" /\ thrown = "io") =>
          /\ ~fsys.writable
          /\ result = {}
          /\ burn = NoCall /\ soft = NoCall
          /\ trace = <<>>
          /\ fsys.output = "absent"
          /\ fsys.writes = "none"
    /\ (~fsys.writable /\ psPc \notin {"idle", "start", "generating", "saving"}) =>
          psPc = "threw" /\ thrown = "io"
    /\ (~fsys.writable
            /\ entry \in {"processVideoWithSubtitles", "generateSubtitles",
                          "updateSubtitleTiming"}
            /\ (pvPc = "responded" \/ ctlPc = "responded")) =>
          response.code # 201 /\ response.code # 200

\* the write fails in an invocation that was asked to mux an existing video
C16_Witness ==
    /\ psPc = "threw"
    /\ thrown = "io"
    /\ options.addToVideo /\ options.videoPath
    /\ VideoExists(fsys)
    /\ Len(subtitleContent.text) > 0

\* C17 (as claimed): a script that is empty after segment filtering, or a
\* video duration that is zero or negative, makes the endpoint answer with
\* a validation failure at once; no subtitle file is written and no engine
\* call is made for such a request.
C17_BadInputRejected ==
    (entry = "generateSubtitles"
        /\ (Sentences(scriptText) = <<>> \/ videoDuration <= 0)) =>
        /\ psPc = "idle"
        /\ fsys.writes = "none"
        /\ burn = NoCall /\ soft = NoCall
        /\ trace = <<>>
        /\ ctlPc = "responded" => response.code = 400

\* C18 (as claimed): when muxing is skipped (addToVideo false or no
\* videoPath) the run ends in the terminal state completed, the subtitle
\* file is written, the result has no videoWithSubtitles, and there is no
\* engine call and no copy of the video.
C18_SkippedMuxCompletes ==
    (psPc = "returned" /\ ~(options.addToVideo /\ options.videoPath)) =>
        /\ fsys.subtitle = subtitleContent
        /\ fsys.writes # "none"
        /\ "videoWithSubtitles" \notin result
        /\ burn = NoCall /\ soft = NoCall
        /\ trace = <<>>
        /\ fsys.output = "absent"
        /\ (entry = "updateSubtitleTiming" /\ ctlPc = "responded") =>
              store[VideoId].status = "completed"

\* C19: within one processSubtitles invocation the stages run in sequence:
\* timing and serialization have finished when the write starts, and no
\* engine call starts before the write has completed, so the file the
\* engine reads holds exactly the text of this invocation as its complete
\* contents, also when a file already existed at that path.
C19_StagesInSequence ==
    /\ psPc \in {"idle", "start", "generating"} =>
          /\ fsys.writes = "none"
          /\ burn = NoCall /\ soft = NoCall /\ trace = <<>>
    /\ psPc = "saving" =>
          /\ cuePc = "done"
          /\ Len(cues) = Len(sentences)
          /\ subtitleContent = [format |-> format, text |-> subtitles]
          /\ fsys.writes = "none"
          /\ burn = NoCall /\ soft = NoCall /\ trace = <<>>
    /\ (burn # NoCall \/ soft # NoCall \/ trace # <<>>) =>
          /\ fsys.writes # "none"
          /\ fsys.subtitle = [format |-> format, text |-> subtitles]
          /\ cuePc = "done"

\* the engine runs on a file that replaced an older one
C19_Witness ==
    /\ fsys.writes = "replaced"
    /\ burn.phase = "run"
    /\ burn.proc
    /\ Len(cues) = 2
    /\ fsys.subtitle.text = subtitles

\* ------------------------------------------------------------------------
\* Properties of createSmartSubtitles (checked under SpecCue)
\* ------------------------------------------------------------------------
CueIdx == 1..Len(cues)

\* the end the cue would have had without the clamp of line 121
RawEnd(c) == c.start + SentenceDuration(WordCount(c.text))

\* C7: every cue produced by createSmartSubtitles ends at or before
\* videoDuration, for every script and every videoDuration > 0.
C7_EndWithinDuration ==
    \A i \in CueIdx : cues[i].end <= videoDuration

\* a cue whose computed end lay beyond the video and was clamped
C7_Witness ==
    /\ cuePc = "done"
    /\ \E i \in CueIdx : /\ RawEnd(cues[i]) > videoDuration
                         /\ cues[i].start < videoDuration

\* C8: consecutive cues never overlap; the first cue starts at 0 and each
\* later cue starts exactly 0.5 s after the end of its predecessor.
C8_NoOverlapHalfSecondGap ==
    /\ (Len(cues) >= 1 => cues[1].start = 0)
    /\ \A i \in CueIdx : i > 1 =>
          /\ cues[i].start >= cues[i - 1].end
          /\ cues[i].start = cues[i - 1].end + GapMs

C8_Witness ==
    /\ cuePc = "done"
    /\ Len(cues) >= 3
    /\ \E i \in CueIdx : i < Len(cues) /\ RawEnd(cues[i]) > videoDuration

\* C9 (as claimed): every emitted cue satisfies 0 <= start < end, also the
\* cues emitted after the cursor has reached or passed videoDuration.
C9_StartBeforeEnd ==
    \A i \in CueIdx : 0 <= cues[i].start /\ cues[i].start < cues[i].end

C11_WordDurationExample ==
    /\ \A i \in CueIdx :
          cues[i].end = Min(cues[i].start + 400 * WordCount(sentences[i]),
                            videoDuration)
    /\ (scriptText = ExampleScript /\ videoDuration = ExampleDuration
            /\ cuePc = "done") =>
          /\ Len(cues) = 3
          /\ cues[1].text = <<"H", "e", " ", "r", "u", "n", "s">>
          /\ cues[2].text = <<"H", "e", " ", "j", "u", "m", "p", "s">>
          /\ cues[3].text = <<"W", "i", "l", "l", " ", "h", "e", " ",
                              "m", "a", "k", "e", " ", "i", "t">>
          /\ <<cues[1].start, cues[1].end>> = <<0, 800>>
          /\ <<cues[2].start, cues[2].end>> = <<1300, 2100>>
          /\ <<cues[3].start, cues[3].end>> = <<2600, 4200>>
          /\ \E k \in 1..(Len(subtitles) - 28) :
                SubSeq(subtitles, k, k + 28) =
                    IF format = "srt"
                    THEN <<"0", "0", ":", "0", "0", ":", "0", "2", ",", "6", "0", "0",
                           " ", "-", "-", ">", " ",
                           "0", "0", ":", "0", "0", ":", "0", "4", ",", "2", "0", "0">>
                    ELSE <<"0", "0", ":", "0", "0", ":", "0", "2", ".", "6", "0", "0",
                           " ", "-", "-", ">", " ",
                           "0", "0", ":", "0", "0", ":", "0", "4", ".", "2", "0", "0">>

C11_Witness ==
    /\ scriptText = ExampleScript
    /\ videoDuration = ExampleDuration
    /\ cuePc = "done"
    /\ Len(cues) = 3
    /\ Len(subtitles) > 0

\* readers: the runs of characters between separators
RECURSIVE SplitAt(_, _, _, _)
SplitAt(str, seps, cur, acc) ==
    IF str = <<>> THEN Append(acc, cur)
    ELSE IF Head(str) \in seps
         THEN SplitAt(Tail(str), seps, <<>>, Append(acc, cur))
         ELSE SplitAt(Tail(str), seps, Append(cur, Head(str)), acc)

IsDigit(c) == c \in {"0", "1", "2", "3", "4", "5", "6", "7", "8", "9"}
AllDigits(str) == str # <<>> /\ \A i \in 1..Len(str) : IsDigit(str[i])
DigitValue(c) == CHOOSE v \in 0..9 : DigitChar(v) = c

RECURSIVE toNumber(_)
toNumber(str) ==
    IF str = <<>> THEN 0
    ELSE 10 * toNumber(SubSeq(str, 1, Len(str) - 1)) + DigitValue(str[Len(str)])

\* the lines of a text, and the text of some lines
Lines(text) == SplitAt(text, {"\n"}, <<>>, <<>>)

RECURSIVE Join(_)
Join(lines) ==
    IF Len(lines) = 0 THEN <<>>
    ELSE IF Len(lines) = 1 THEN lines[1]
    ELSE lines[1] \o <<"\n">> \o Join(Tail(lines))

IsTimingLine(l) ==
    \E k \in 1..(Len(l) - 4) : SubSeq(l, k, k + 4) = <<" ", "-", "-", ">", " ">>

CommaToDot(l) == [k \in 1..Len(l) |-> IF l[k] = "," THEN "." ELSE l[k]]

\* an SRT text with its index lines removed, the commas of its timing
\* lines turned into dots, and the header put in front
RECURSIVE WithoutIndexLines(_, _)
WithoutIndexLines(lines, i) ==
    IF i > Len(lines) THEN <<>>
    ELSE IF i < Len(lines) /\ AllDigits(lines[i]) /\ IsTimingLine(lines[i + 1])
         THEN WithoutIndexLines(lines, i + 1)
         ELSE <<IF IsTimingLine(lines[i]) THEN CommaToDot(lines[i]) ELSE lines[i]>>
              \o WithoutIndexLines(lines, i + 1)

SrtAsVtt(text) ==
    <<"W", "E", "B", "V", "T", "T", "\n", "\n">>
    \o Join(WithoutIndexLines(Lines(text), 1))

\* a standard SRT reader: blocks of lines separated by blank lines; a block
\* is a cue when it starts with an index line and a timing line, and the
\* lines after them are its text
IsCueBlock(b) == Len(b) >= 2 /\ AllDigits(b[1]) /\ IsTimingLine(b[2])

ReadSrt(text) ==
    LET blocks == SelectSeq(SplitAt(Lines(text), {<<>>}, <<>>, <<>>), IsCueBlock)
    IN [i \in 1..Len(blocks) |->
           [index |-> toNumber(blocks[i][1]),
            text  |-> Join(SubSeq(blocks[i], 3, Len(blocks[i])))]]

\* C12 (as claimed): the SRT text round-trips through a standard SRT
\* reader for every script: as many cues as non-empty trimmed segments,
\* index lines 1..N in order, and the text of cue i identical to the i-th
\* segment, also when the segment contains line breaks.
C12_SrtRoundTrip ==
    (cuePc = "done" /\ format = "srt") =>
        LET read == ReadSrt(subtitles)
            segments == Sentences(scriptText)
        IN /\ Len(read) = Len(segments)
           /\ \A i \in 1..Len(read) : /\ read[i].index = i
                                       /\ read[i].text = segments[i]

\* C13: for every script and duration the 'srt' and 'vtt' outputs describe
\* the same cue sequence (count, order, start, end, text); the texts differ
\* only in the millisecond separator, the SRT index lines and the WEBVTT
\* header followed by a blank line.  Checked under SpecTwice.
C13_SameCuesBothFormats ==
    (previous # NoPrevious /\ cuePc = "done") =>
        /\ cues = previous.cues
        /\ format = "vtt" => subtitles = SrtAsVtt(previous.subtitles)
        /\ format = "srt" => previous.subtitles = SrtAsVtt(subtitles)

\* both formats of a script of three segments, a clamped cue among them
C13_Witness ==
    /\ previous.format = "srt"
    /\ format = "vtt"
    /\ cuePc = "done"
    /\ Len(cues) = 3
    /\ cues[2].end = videoDuration
    /\ Len(previous.subtitles) > 0

\* a script of sentence punctuation and whitespace only, or empty
NoSegment ==
    \A i \in 1..Len(scriptText) : scriptText[i] \in {".", "!", "?", " ", "\n", "\t"}

\* C14: a script from which no non-empty segment remains (empty, whitespace
\* only or punctuation only) yields no cue: the call returns the empty
\* string for 'srt' and exactly 'WEBVTT' followed by two newlines for 'vtt'.
C14_EmptyScriptEmptyOutput ==
    (cuePc = "done" /\ NoSegment) =>
        /\ cues = <<>>
        /\ format = "srt" => subtitles = <<>>
        /\ format = "vtt" => subtitles = <<"W", "E", "B", "V", "T", "T", "\n", "\n">>

\* punctuation and whitespace only, VTT
C14_Witness ==
    /\ cuePc = "done"
    /\ format = "vtt"
    /\ scriptText = <<".", " ", "\n", ".">>
    /\ Len(subtitles) = 8

\* ------------------------------------------------------------------------
\* Properties of formatTime (checked under SpecFmt)
\* ------------------------------------------------------------------------
TimeParts == SplitAt(timeString, {":", ",", "."}, <<>>, <<>>)

\* the string reads back as fields in range that add up to the time floored
\* to whole milliseconds
ReadsBackFloored ==
    /\ Len(TimeParts) = 4
    /\ \A k \in 1..4 : AllDigits(TimeParts[k])
    /\ toNumber(TimeParts[2]) < 60
    /\ toNumber(TimeParts[3]) < 60
    /\ toNumber(TimeParts[4]) < 1000
    /\ toNumber(TimeParts[1]) * 3600000 + toNumber(TimeParts[2]) * 60000
           + toNumber(TimeParts[3]) * 1000 + toNumber(TimeParts[4])
         = seconds \div TicksPerMs
    /\ timeString[Len(timeString) - 3] = (IF format = "srt" THEN "," ELSE ".")

C23_FallbackOrder ==
    /\ (options.subtitleType # "soft" /\ soft.promise # "none")
          => burn.promise = "rejected"
    /\ burn.promise = "resolved"
          => (soft.promise = "none" /\ "copy" \notin Range(trace))
    /\ options.subtitleType = "soft"
          => (burn = NoCall /\ Range(trace) \cap {"test", "burn"} = {})
    /\ "copy" \in Range(trace) => soft.promise = "rejected"
    /\ \A i, j \in 1..Len(trace) :
          /\ (trace[i] = "burn" /\ trace[j] = "soft") => i < j
          /\ (trace[i] = "soft" /\ trace[j] = "copy") => i < j

\* a hard-mode request whose burn timed out, whose soft-track call failed
\* and that returned the copy
C23_Witness ==
    /\ options.subtitleType # "soft"
    /\ burn.reason = "timeout"
    /\ soft.promise = "rejected"
    /\ trace = <<"test", "burn", "soft", "copy">>
    /\ psPc = "returned"

\* the engine process of a call is running and has the output path open
BurnWriting == burn.phase = "run" /\ burn.proc
SoftWriting == soft.phase = "run" /\ soft.proc

\* C24: at most one writer is active on the invocation's output video path:
\* the burn engine and the soft-track engine never run at the same time, and
\* no engine is running when the original is copied to the path
C24_SingleWriter ==
    /\ ~(BurnWriting /\ SoftWriting)
    /\ "copy" \in Range(trace) => ~(BurnWriting \/ SoftWriting)

\* a promise that was settled
Settled(call) == call.promise \in {"resolved", "rejected"}
SameOutcome(call, after) ==
    /\ after.promise = call.promise
    /\ after.reason = call.reason
    /\ after.settledAt = call.settledAt

Count(seq, x) == Cardinality({i \in 1..Len(seq) : seq[i] = x})

\* C25: each engine call delivers one outcome: once its promise is settled
\* no later timeout, 'end' or 'error' changes it; a 'progress' event never
\* settles or changes it; the soft-track call and the copy happen at most
\* once; and what processSubtitles delivered does not change afterwards
C25_OneOutcome ==
    /\ [](Count(trace, "soft") <= 1 /\ Count(trace, "copy") <= 1)
    /\ [][/\ Settled(burn) => SameOutcome(burn, burn')
          /\ Settled(soft) => SameOutcome(soft, soft')
          /\ burn'.progress # burn.progress => burn'.promise = burn.promise
          /\ soft'.progress # soft.progress => soft'.promise = soft.promise
          /\ PsOver => /\ psPc' = psPc
                       /\ result' = result
                       /\ thrown' = thrown
                       /\ trace' = trace]_vars

\* the burn timed out after a progress event, its 'end' or 'error' came
\* later, and processSubtitles has returned
C25_Witness ==
    /\ burn.reason = "timeout"
    /\ burn.phase = "over"
    /\ burn.progress > 0
    /\ psPc = "returned"

\* C26: when processSubtitles has returned a result with videoWithSubtitles
\* a file exists at the output path; an engine that ended without an output
\* file rejected its promise; and when the final copy failed processSubtitles
\* threw and set no videoWithSubtitles
C26_ReturnedVideoExists ==
    /\ (psPc = "returned" /\ "videoWithSubtitles" \in result)
          => OutputExists(fsys.output)
    /\ \A call \in {burn, soft} :
          /\ call.reason = "nofile" => call.promise = "rejected"
          /\ (call.promise = "resolved" /\ call.settledAt = now
                /\ psPc \in {"awaitBurn", "awaitSoft"})
                => OutputExists(fsys.output)
    /\ thrown = "ENOENT"
          => (psPc = "threw" /\ "videoWithSubtitles" \notin result)

\* the burn ended without an output file, the chain went on and
\* processSubtitles returned a video
C26_Witness ==
    /\ burn.reason = "nofile"
    /\ psPc = "returned"
    /\ "videoWithSubtitles" \in result
    /\ OutputExists(fsys.output)

\* C28: a generateSubtitles request starts no engine process, makes no
\* engine call and copies no video, whatever its body carries
C28_GenerateOnlyWritesSubtitles ==
    entry = "generateSubtitles"
        => /\ trace = <<>>
           /\ burn = NoCall
           /\ soft = NoCall
           /\ fsys.output = "absent"

\* ------------------------------------------------------------------------
\* Properties of the clamped cues
\* ------------------------------------------------------------------------
\* the end of the cue was cut to videoDuration
Clamped(c) == RawEnd(c) > videoDuration

\* C30: every cue that starts before videoDuration has start < end; at most
\* one cue is both clamped and of positive width; and every cue after the
\* first clamped cue starts at videoDuration + 0.5 s
C30_ClampedCues ==
    /\ \A i \in CueIdx :
          cues[i].start < videoDuration => cues[i].start < cues[i].end
    /\ Cardinality({i \in CueIdx : Clamped(cues[i])
                                     /\ cues[i].start < cues[i].end}) <= 1
    /\ \A i, j \in CueIdx :
          (i < j /\ Clamped(cues[i])) => cues[j].start = videoDuration + GapMs

\* a clamped cue of positive width followed by two more cues
C30_Witness ==
    /\ cuePc = "done"
    /\ \E i \in CueIdx :
          /\ Clamped(cues[i])
          /\ cues[i].start < cues[i].end
          /\ i + 2 <= Len(cues)

\* ------------------------------------------------------------------------
\* Properties of the responses
\* ------------------------------------------------------------------------
\* the fields of a response body that carry the raw error object or a stack
\* trace
RawFields == {"error", "stack", "error.stack"}

\* C22: outside development mode no response of the subtitle routes or of
\* the error middleware carries the raw error object or a stack trace
C22_NoRawErrorInProduction ==
    nodeEnv # "development" => response.body \cap RawFields = {}

\* C27: once processVideoWithSubtitles has answered with videoWithSubtitles,
\* a download request for the video is served the processed video and is not
\* answered 'Video not ready for download'
C27_ProcessedVideoDownloadable ==
    (/\ entry = "processVideoWithSubtitles"
     /\ response.code = 201
     /\ "videoWithSubtitles" \in response.body
     /\ download # NoDownload)
        => download.code = 200

\* ------------------------------------------------------------------------
\* Properties of the status store
\* ------------------------------------------------------------------------
\* the records without their updatedAt
Unstamped(data) ==
    [k \in DOMAIN data |-> [f \in DOMAIN data[k] \ {"updatedAt"} |-> data[k][f]]]

C29_OthersUnchanged ==
    [][lastCall'.op \in {"create", "update"}
         => \A other \in DOMAIN store \ {lastCall'.id} :
               other \in DOMAIN store' /\ store'[other] = store[other]]_vars

====
